---- MODULE Spec2Model ----
(***************************************************************************)
(* The cart -> order core of the backend (controllers/orderController.ts),  *)
(* with the product edits of controllers/productController.ts.             *)
(* The database tables are the state; every handler is a request that      *)
(* takes one step per awaited data-access call, so that requests           *)
(* interleave exactly where the code can be suspended.                     *)
(***************************************************************************)
EXTENDS Integers, Sequences, FiniteSets, TLC

\* ---------------------------------------------------------------- bounds
MaxReq == 2
MaxStock == 2
MaxQty == 2
MaxPrice == 2

Users == {"u1", "u2"}
Products == {"p1", "p2"}
Req == 1..MaxReq

\* A nullable column: <<>> is null, <<n>> is the value n.
Null == <<>>
Some(n) == <<n>>

VARIABLES
    products,    \* Product table: [Products -> [exists, name, status, stock, price]]
    carts,       \* Cart table, one row per user at most: [Users -> [exists, subtotal]]
    cartItems,   \* CartItem table: set of rows [id, cartId, productId, quantity, price]
    orders,      \* Order table with nested OrderItems, in creation order
    req,         \* the requests: position, locals and response of each
    initStock,   \* the Product.stock column as it was initially (history)
    reviews      \* Review table: set of rows [id, userId, productId, rating, title, ...]

vars == <<products, carts, cartItems, orders, req, initStock, reviews>>

\* ------------------------------------------------------------- helpers
Max(a, b) == IF a >= b THEN a ELSE b

\* The id of the cart row of user u (Cart.userId is unique: one cart per user).
CartId(u) == u

\* cuid of the CartItem row of (cart, product) created before the run, and
\* of the row that request r creates: every created row has a fresh id.
ItemId(u, p) == <<u, p, 0>>
NewItemId(u, p, r) == <<u, p, r>>

NoResp == [status |-> 0, error |-> "", product |-> ""]
Resp(s, e, p) == [status |-> s, error |-> e, product |-> p]

\* The parameters and body of a request that names an order, a product, a
\* cart item or a quantity (0, "" and <<>> where the request names none).
\* A body field that is absent is <<>>.
NoPatch == [name |-> <<>>, price |-> <<>>, stock |-> <<>>, status |-> <<>>]
NoArg == [order |-> 0, product |-> "", item |-> <<>>, quantity |-> 0, patch |-> NoPatch,
          rating |-> 0, title |-> <<>>, token |-> <<>>, description |-> "",
          category |-> "", shipping |-> 0, page |-> <<>>, limit |-> <<>>]

IdleReq == [pc |-> "idle", op |-> "", user |-> "", arg |-> NoArg,
            items |-> <<>>, orderId |-> 0, pending |-> {}, product |-> <<>>,
            cartId |-> "", existing |-> <<>>, sum |-> 0, data |-> <<>>,
            number |-> 0, err |-> FALSE, resp |-> NoResp]

\* All orderings of a finite set as sequences (a query with no orderBy).
Perms(S) ==
    {f \in [1..Cardinality(S) -> S] : \A i, j \in 1..Cardinality(S) : i # j => f[i] # f[j]}

\* prisma.cart.findUnique({where:{userId}, include:{items:{include:{product}}}})
\* the rows of the user's cart joined with their products, in any order.
CartRows(u) == {it \in cartItems : it.cartId = CartId(u)}
Joined(it) == [id |-> it.id, cartId |-> it.cartId, productId |-> it.productId,
               quantity |-> it.quantity, price |-> it.price,
               product |-> products[it.productId]]
FindCartItems(u) == {[i \in 1..Len(f) |-> Joined(f[i])] : f \in Perms(CartRows(u))}

\* Faulty variant: the status check is left out of the validation loop.
ItemNotActive_NoCheck(it) == FALSE
\* Faulty variant: the stock check is left out of the validation loop.
ItemShort_NoCheck(it) == FALSE

\* The validation loop: index of the first item that fails, 0 when none does.
ItemNotActive(it) == it.product.status # "ACTIVE"
ItemShort(it) == it.product.stock # Null /\ it.product.stock[1] < it.quantity
FirstBad(items) ==
    LET bad == {i \in 1..Len(items) : ItemNotActive(items[i]) \/ ItemShort(items[i])}
    IN IF bad = {} THEN 0 ELSE CHOOSE i \in bad : \A j \in bad : i <= j

ValidationError(items) ==
    LET i == FirstBad(items)
    IN IF ItemNotActive(items[i])
       THEN Resp(400, "product not active", items[i].productId)
       ELSE Resp(400, "insufficient stock", items[i].productId)

\* Faulty variant: the quantity is left out of the sum.
RECURSIVE SubtotalOf_NoQuantity(_)
SubtotalOf_NoQuantity(items) ==
    IF items = <<>> THEN 0
    ELSE SubtotalOf_NoQuantity(SubSeq(items, 1, Len(items) - 1)) + items[Len(items)].price

\* cart.items.reduce((acc, it) => acc + Number(it.price) * it.quantity, 0)
RECURSIVE SubtotalOf(_)
SubtotalOf(items) ==
    IF items = <<>> THEN 0
    ELSE SubtotalOf(SubSeq(items, 1, Len(items) - 1))
         + items[Len(items)].price * items[Len(items)].quantity

\* Faulty variant: the last item of the cart gets no OrderItem.
OrderItemsOf_DropLast(items) ==
    [i \in 1..(Len(items) - 1) |->
        [productId |-> items[i].productId, name |-> items[i].product.name,
         quantity |-> items[i].quantity,
         price |-> items[i].price, total |-> items[i].price * items[i].quantity]]

\* Faulty variant: the order item is priced from the product as it is now.
OrderItemOf_ProductPrice(it) ==
    [productId |-> it.productId, name |-> it.product.name, quantity |-> it.quantity,
     price |-> it.product.price, total |-> it.product.price * it.quantity]

\* cart.items.map(it => ({productId, name, quantity, price, total}))
OrderItemOf(it) == [productId |-> it.productId, name |-> it.product.name,
                    quantity |-> it.quantity,
                    price |-> it.price, total |-> it.price * it.quantity]
OrderItemsOf(items) == [i \in 1..Len(items) |-> OrderItemOf(items[i])]

\* Lines 159-189: the data of prisma.order.create. The totals are computed
\* with taxNum = shippingNum = discountNum = 0, and the shipping column takes
\* req.body.shipping || shippingNum.
NewOrder(u, items, number, shipping) ==
    [id |-> Len(orders) + 1, orderNumber |-> number, userId |-> u,
     subtotal |-> SubtotalOf(items), tax |-> 0,
     shipping |-> IF shipping # 0 THEN shipping ELSE 0, discount |-> 0,
     total |-> SubtotalOf(items) + 0 + 0 - 0,
     items |-> OrderItemsOf(items)]

\* Math.max(0, (it.product.stock || 0) - it.quantity)
StockOr0(s) == IF s = Null THEN 0 ELSE s[1]
\* Faulty variant: one unit is taken off the stock whatever the quantity.
DecrementedStock_ByOne(it) == Some(Max(0, StockOr0(it.product.stock) - 1))
\* Faulty variant: the floor at zero is left out.
DecrementedStock_NoFloor(it) == Some(StockOr0(it.product.stock) - it.quantity)
DecrementedStock(it) == Some(Max(0, StockOr0(it.product.stock) - it.quantity))

\* ------------------------------------------------------- initial states
\* The database before the requests of a run arrive. Product.stock is a
\* nullable Int (null = not tracked); a CartItem row carries the price that
\* was the product's when it was added.
PriceOf(p) == IF p = "p1" THEN 1 ELSE MaxPrice
NameOf(p) == IF p = "p1" THEN "Tea" ELSE "Mug"

StockValues == {Null} \cup {Some(n) : n \in 0..MaxStock}

ItemRow(u, p, q) == [id |-> ItemId(u, p), cartId |-> CartId(u), productId |-> p,
                     quantity |-> q, price |-> PriceOf(p)]

\* The carts one user can have: every choice of products (at most one row per
\* product: the pair (cartId, productId) is unique) and, for each product, of
\* a quantity >= 1 among qtys[p].
CartContents(u, qtys) ==
    UNION {{{ItemRow(u, p, q[p]) : p \in ps} :
              q \in {f \in [ps -> 1..MaxQty] : \A p \in ps : f[p] \in qtys[p]}}
           : ps \in SUBSET Products}

SubtotalOfRows(rows) ==
    LET RECURSIVE S(_)
        S(R) == IF R = {} THEN 0
                ELSE LET x == CHOOSE y \in R : TRUE
                     IN x.price * x.quantity + S(R \ {x})
    IN S(rows)

\* The catalog: every product with a price, and a status and a stock drawn
\* from the given sets.
Catalogs(statuses, stocks) ==
    {f \in [Products -> [exists : {TRUE}, name : {NameOf(p) : p \in Products},
                          status : statuses, stock : StockValues, price : 1..MaxPrice]] :
        \A p \in Products : /\ f[p].name = NameOf(p)
                             /\ f[p].price = PriceOf(p)
                             /\ f[p].stock \in stocks[p]}

\* u1 has any cart (or none); u2 has a cart, empty or with one unit of p1.
InitDb(catalogs, u1items, u2carts) ==
    /\ products \in catalogs
    /\ \E c1 \in u1items, has1 \in BOOLEAN, c2 \in u2carts :
          /\ has1 \/ c1 = {}
          /\ cartItems = c1 \cup c2.items
          /\ carts = [u \in Users |->
                        [exists |-> IF u = "u1" THEN has1 ELSE c2.exists,
                         subtotal |-> SubtotalOfRows({it \in cartItems : it.cartId = CartId(u)})]]
    /\ orders = <<>>
    /\ req = [r \in Req |-> IdleReq]
    /\ initStock = [p \in Products |-> products[p].stock]
    /\ reviews = {}

NoCart == [exists |-> FALSE, items |-> {}]
EmptyCart == [exists |-> TRUE, items |-> {}]
OneUnitCart(u, p) == [exists |-> TRUE, items |-> {ItemRow(u, p, 1)}]

\* Concurrent requests: every product is ACTIVE, p1 has any stock and p2 is
\* not tracked; u1 has any quantity of p1 and at most one unit of p2; u2 has
\* a cart.
Init ==
    InitDb(Catalogs({"ACTIVE"}, [p \in Products |-> IF p = "p1" THEN StockValues ELSE {Null}]),
           CartContents("u1", [p \in Products |-> IF p = "p1" THEN 1..MaxQty ELSE {1}]),
           {EmptyCart, OneUnitCart("u2", "p1")})

\* One request at a time: products of either status and of any stock.
InitSeq ==
    InitDb(Catalogs({"ACTIVE", "DRAFT"}, [p \in Products |-> StockValues]),
           CartContents("u1", [p \in Products |-> 1..MaxQty]),
           {NoCart, EmptyCart, OneUnitCart("u2", "p1")})

\* ------------------------------------------------- createOrder, by step
Set(r, rec) == req' = [req EXCEPT ![r] = rec]
Answer(r, resp) == Set(r, [req[r] EXCEPT !.pc = "done", !.resp = resp])

\* catch (err) { return res.status(500) ... }: any data-access call may throw
\* (the ...Throws actions), and the catch clause answers 500.
\* Faulty variant: the catch clause answers as if the order had gone through.
ErrorResponse_Swallowed == Resp(201, "order created", "")
ErrorResponse == Resp(500, "Failed to create order", "")
Caught(r) == Set(r, [req[r] EXCEPT !.pc = "done", !.err = TRUE, !.resp = ErrorResponse])

\* Faulty variant: only the missing cart is refused, not the cart with no items.
CartIsEmpty_OnlyMissing(u, items) == ~carts[u].exists
\* if (!cart || cart.items.length === 0)
CartIsEmpty(u, items) == ~carts[u].exists \/ Len(items) = 0

\* The requests are numbered in the order in which they arrive.
Arriving(r) == req[r].pc = "idle" /\ \A o \in Req : o < r => req[o].pc # "idle"

\* Lines 141-163: the cart is read with its items and their products, the
\* request is refused when the cart is missing or empty or an item fails the
\* validation loop, and the totals are computed; shipping is the shipping
\* amount of the request body (0: none given).
CoFindCartBody(r, u, shipping) ==
    /\ Arriving(r)
    /\ \E items \in FindCartItems(u) :
          IF CartIsEmpty(u, items)
          THEN Set(r, [req[r] EXCEPT !.pc = "done", !.op = "createOrder", !.user = u,
                                     !.arg.shipping = shipping,
                                     !.resp = Resp(400, "cart is empty", "")])
          ELSE IF FirstBad(items) # 0
          THEN Set(r, [req[r] EXCEPT !.pc = "done", !.op = "createOrder", !.user = u,
                                     !.arg.shipping = shipping,
                                     !.items = items, !.resp = ValidationError(items)])
          ELSE Set(r, [req[r] EXCEPT !.pc = "create", !.op = "createOrder", !.user = u,
                                     !.arg.shipping = shipping,
                                     !.items = items])
    /\ UNCHANGED <<products, carts, cartItems, orders, initStock, reviews>>

\* A createOrder whose body gives no shipping amount.
CoFindCart(r, u) == CoFindCartBody(r, u, 0)

CoFindCartThrows(r, u) ==
    /\ Arriving(r)
    /\ Set(r, [req[r] EXCEPT !.pc = "done", !.op = "createOrder", !.user = u,
                             !.err = TRUE, !.resp = ErrorResponse])
    /\ UNCHANGED <<products, carts, cartItems, orders, initStock, reviews>>

\* Faulty variant: the new order takes the place of the latest order.
InsertOrder_OverLatest(table, order) ==
    IF table = <<>> THEN <<order>> ELSE [table EXCEPT ![Len(table)] = order]
\* prisma.order.create inserts a row: the rows there are stay as they are.
InsertOrder(table, order) == Append(table, order)

\* OrderItem.productId references a Product: a row is inserted only when its
\* product is there.
ProductsThere(items) == \A i \in 1..Len(items) : products[items[i].productId].exists

\* Order.orderNumber is unique: an insert with the number of an order that
\* is there is refused.
NumberTaken(number) == \E n \in 1..Len(orders) : orders[n].orderNumber = number

\* Lines 166-189: prisma.order.create with the nested OrderItems (one write),
\* which throws when a product of the cart as read has been deleted since or
\* the order number is taken. number is what genOrderNumber() returns,
\* `ORD-${Date.now()}-${rnd}`: one value per millisecond and rnd.
CoCreateOrderAs(r, number) ==
    /\ req[r].pc = "create"
    /\ LET me == [req[r] EXCEPT !.number = number]
       IN IF ProductsThere(req[r].items) /\ ~NumberTaken(number)
          THEN /\ orders' = InsertOrder(orders, NewOrder(req[r].user, req[r].items, number,
                                                         req[r].arg.shipping))
               /\ Set(r, [me EXCEPT !.pc = "stock", !.orderId = Len(orders) + 1,
                                    !.pending = 1..Len(req[r].items)])
          ELSE /\ Set(r, [me EXCEPT !.pc = "done", !.err = TRUE, !.resp = ErrorResponse])
               /\ UNCHANGED orders
    /\ UNCHANGED <<products, carts, cartItems, initStock, reviews>>

\* An order created after the clock has moved on from the orders before it:
\* its number is one that no order has.
CoCreateOrder(r) == CoCreateOrderAs(r, Len(orders) + 1)

CoCreateOrderThrows(r) ==
    /\ req[r].pc = "create"
    /\ Caught(r)
    /\ UNCHANGED <<products, carts, cartItems, orders, initStock, reviews>>

\* Lines 192-199: Promise.all over one product.update per item. The updates
\* are all issued and land in any order; each writes the stock computed from
\* the product as it was read with the cart. The first one to throw answers
\* the request, the others still land.
AfterStock(r, i) ==
    IF req[r].pending = {i}
    THEN IF req[r].err THEN "done" ELSE "clear"
    ELSE "stock"

CoUpdateStock(r, i) ==
    /\ req[r].pc = "stock"
    /\ i \in req[r].pending
    /\ products' = [products EXCEPT ![req[r].items[i].productId].stock =
                        DecrementedStock(req[r].items[i])]
    /\ Set(r, [req[r] EXCEPT !.pending = @ \ {i}, !.pc = AfterStock(r, i)])
    /\ UNCHANGED <<carts, cartItems, orders, initStock, reviews>>

CoUpdateStockThrows(r, i) ==
    /\ req[r].pc = "stock"
    /\ i \in req[r].pending
    /\ Set(r, [req[r] EXCEPT !.pending = @ \ {i}, !.err = TRUE, !.resp = ErrorResponse,
                             !.pc = IF req[r].pending = {i} THEN "done" ELSE "stock"])
    /\ UNCHANGED <<products, carts, cartItems, orders, initStock, reviews>>

\* Line 202: prisma.cartItem.deleteMany({ where: { cartId: cart.id } })
CoDeleteItems(r) ==
    /\ req[r].pc = "clear"
    /\ cartItems' = {it \in cartItems : it.cartId # CartId(req[r].user)}
    /\ Set(r, [req[r] EXCEPT !.pc = "subtotal"])
    /\ UNCHANGED <<products, carts, orders, initStock, reviews>>

CoDeleteItemsThrows(r) ==
    /\ req[r].pc = "clear"
    /\ Caught(r)
    /\ UNCHANGED <<products, carts, cartItems, orders, initStock, reviews>>

\* Lines 203-205: the cart's subtotal is reset and the order is returned.
CoResetSubtotal(r) ==
    /\ req[r].pc = "subtotal"
    /\ carts' = [carts EXCEPT ![req[r].user].subtotal = 0]
    /\ Answer(r, Resp(201, "order created", ""))
    /\ UNCHANGED <<products, cartItems, orders, initStock, reviews>>

CoResetSubtotalThrows(r) ==
    /\ req[r].pc = "subtotal"
    /\ Caught(r)
    /\ UNCHANGED <<products, carts, cartItems, orders, initStock, reviews>>

\* ------------------------------------------------------- getOrderById
\* Faulty variant: the order is looked up by its id alone.
FindOrder_AnyOwner(id, u) ==
    LET found == {i \in DOMAIN orders : orders[i].id = id}
    IN IF found = {} THEN Null ELSE Some(orders[CHOOSE i \in found : TRUE])

\* prisma.order.findFirst({ where: { id, userId }, include: { items: true } })
FindOrder(id, u) ==
    LET found == {i \in DOMAIN orders : orders[i].id = id /\ orders[i].userId = u}
    IN IF found = {} THEN Null ELSE Some(orders[CHOOSE i \in found : TRUE])

\* The order ids a request can name: those of the orders a run can create.
OrderIds == 1..MaxReq

\* GET /api/orders/:id: one read; 404 when no order of the user has the id.
GetOrderById(r, u, id) ==
    /\ Arriving(r)
    /\ LET order == FindOrder(id, u)
       IN IF order = Null
          THEN Set(r, [req[r] EXCEPT !.pc = "done", !.op = "getOrderById", !.user = u,
                                     !.arg.order = id,
                                     !.resp = Resp(404, "order not found", "")])
          ELSE Set(r, [req[r] EXCEPT !.pc = "done", !.op = "getOrderById", !.user = u,
                                     !.arg.order = id, !.data = order,
                                     !.resp = Resp(200, "", "")])
    /\ UNCHANGED <<products, carts, cartItems, orders, initStock, reviews>>

\* ------------------------------------------------- cart handlers, by step
\* catch (err) { return res.status(500).json({ error: 'Failed to ...' }) }
FailedTo(op) ==
    CASE op = "addItem" -> "Failed to add item"
      [] op = "updateItem" -> "Failed to update item"
      [] op = "removeItem" -> "Failed to remove item"
      [] op = "clearCart" -> "Failed to clear cart"
      [] op = "getCart" -> "Failed to get cart"
      [] op = "updateProduct" -> "Failed to update product"
      [] op = "deleteProduct" -> "Failed to delete product"
      [] op = "deleteReview" -> "Failed to delete review"
Throws(r) ==
    Set(r, [req[r] EXCEPT !.pc = "done", !.err = TRUE,
                          !.resp = Resp(500, FailedTo(req[r].op), "")])

\* The success message of the handler of a cart request.
Message(op) ==
    CASE op = "addItem" -> "item added"
      [] op = "updateItem" -> "item updated"
      [] op = "removeItem" -> "item removed"
      [] op = "clearCart" -> "cart cleared"
      [] op = "getCart" -> ""

\* const qty = Math.max(1, Number(quantity || 1))
AddQty(quantity) == Max(1, IF quantity = 0 THEN 1 ELSE quantity)

\* prisma.product.findUnique({ where: { id: productId } })
FindProduct(p) == IF products[p].exists THEN Some(products[p]) ELSE Null

\* Faulty variant: the stock is not checked.
StockShort_Never(product, qty) == FALSE
\* product.stock !== null && product.stock < qty
StockShort(product, qty) == product.stock # Null /\ product.stock[1] < qty

\* Lines 381-410 of addItem: the product is read and checked.
AiFindProduct(r, u, p, quantity) ==
    /\ Arriving(r)
    /\ LET qty == AddQty(quantity)
           product == FindProduct(p)
           me == [req[r] EXCEPT !.op = "addItem", !.user = u, !.arg.product = p,
                                !.arg.quantity = qty]
       IN IF product = Null
          THEN Set(r, [me EXCEPT !.pc = "done", !.resp = Resp(404, "product not found", "")])
          ELSE IF product[1].status # "ACTIVE"
          THEN Set(r, [me EXCEPT !.pc = "done", !.resp = Resp(400, "product not active", "")])
          ELSE IF StockShort(product[1], qty)
          THEN Set(r, [me EXCEPT !.pc = "done", !.resp = Resp(400, "insufficient stock", "")])
          ELSE Set(r, [me EXCEPT !.pc = "ensure", !.product = product])
    /\ UNCHANGED <<products, carts, cartItems, orders, initStock, reviews>>

\* The step a request takes once ensureCart has returned the cart.
AfterEnsure(op) ==
    CASE op = "addItem" -> "existing"
      [] op = "clearCart" -> "deleteMany"
      [] op = "getCart" -> "read"

\* ensureCart, line 321: prisma.cart.findUnique({ where: { userId } })
EcFind(r, me) ==
    /\ Set(r, [me EXCEPT !.cartId = CartId(me.user),
                         !.pc = IF carts[me.user].exists
                                THEN AfterEnsure(me.op) ELSE "ensureCreate"])
    /\ UNCHANGED <<products, carts, cartItems, orders, initStock, reviews>>

\* Line 413 of addItem, line 555 of clearCart, line 356 of getCart.
AiEnsureCart(r) == req[r].pc = "ensure" /\ EcFind(r, req[r])
CcEnsureCart(r, u) ==
    Arriving(r) /\ EcFind(r, [req[r] EXCEPT !.op = "clearCart", !.user = u])
GcEnsureCart(r, u) ==
    Arriving(r) /\ EcFind(r, [req[r] EXCEPT !.op = "getCart", !.user = u])

\* ensureCart, line 324: prisma.cart.create({ data: { userId } }). Cart.userId
\* is unique: the create throws when the user has got a cart in the meantime.
EcCreate(r) ==
    /\ req[r].pc = "ensureCreate"
    /\ IF carts[req[r].user].exists
       THEN Throws(r) /\ UNCHANGED carts
       ELSE /\ carts' = [carts EXCEPT ![req[r].user] = [exists |-> TRUE, subtotal |-> 0]]
            /\ Set(r, [req[r] EXCEPT !.pc = AfterEnsure(req[r].op)])
    /\ UNCHANGED <<products, cartItems, orders, initStock, reviews>>

\* prisma.cartItem.findUnique({ where: { cartId_productId: { cartId, productId } } })
FindCartItem(c, p) ==
    LET found == {it \in cartItems : it.cartId = c /\ it.productId = p}
    IN IF found = {} THEN Null ELSE Some(CHOOSE it \in found : TRUE)

\* Faulty variant: the added quantity replaces the quantity of the row.
MergedQuantity_Replace(existing, qty) == qty
\* const newQty = existing.quantity + qty
MergedQuantity(existing, qty) == existing.quantity + qty

\* Lines 416-430 of addItem: the row of the product is looked up and, when
\* there is one, the combined quantity is checked against the stock read.
AiFindExisting(r) ==
    /\ req[r].pc = "existing"
    /\ LET existing == FindCartItem(req[r].cartId, req[r].arg.product)
       IN IF /\ existing # Null
             /\ StockShort(req[r].product[1], MergedQuantity(existing[1], req[r].arg.quantity))
          THEN Set(r, [req[r] EXCEPT !.pc = "done", !.existing = existing,
                                     !.resp = Resp(400, "insufficient stock", "")])
          ELSE Set(r, [req[r] EXCEPT !.pc = "write", !.existing = existing])
    /\ UNCHANGED <<products, carts, cartItems, orders, initStock, reviews>>

\* prisma.cartItem.update({ where: { id }, data }): throws when no row has the id.
RowExists(id) == \E it \in cartItems : it.id = id
UpdateRow(id, quantity, price) ==
    cartItems' = {IF it.id = id THEN [it EXCEPT !.quantity = quantity, !.price = price]
                  ELSE it : it \in cartItems}

\* Lines 433 and 437 of addItem: the row found is updated to the combined
\* quantity and the price read, or a row is created. The pair (cartId,
\* productId) is unique and productId references a product: the create throws
\* when a row of the pair has appeared or the product has gone.
AiWrite(r) ==
    /\ req[r].pc = "write" /\ req[r].op = "addItem"
    /\ LET existing == req[r].existing
           p == req[r].arg.product
           qty == req[r].arg.quantity
           price == req[r].product[1].price
       IN IF existing # Null
          THEN IF RowExists(existing[1].id)
               THEN /\ UpdateRow(existing[1].id, MergedQuantity(existing[1], qty), price)
                    /\ Set(r, [req[r] EXCEPT !.pc = "recalc"])
               ELSE Throws(r) /\ UNCHANGED cartItems
          ELSE IF FindCartItem(req[r].cartId, p) = Null /\ products[p].exists
               THEN /\ cartItems' = cartItems \cup
                          {[id |-> NewItemId(req[r].user, p, r), cartId |-> req[r].cartId,
                            productId |-> p, quantity |-> qty, price |-> price]}
                    /\ Set(r, [req[r] EXCEPT !.pc = "recalc"])
               ELSE Throws(r) /\ UNCHANGED cartItems
    /\ UNCHANGED <<products, carts, orders, initStock, reviews>>

\* prisma.cartItem.findUnique({ where: { id: itemId }, include: { cart, product } })
FindItemById(id) ==
    LET found == {it \in cartItems : it.id = id}
    IN IF found = {} THEN Null ELSE Some(Joined(CHOOSE it \in found : TRUE))

\* Faulty variant: any user may touch any cart item.
Owns_Anyone(u, item) == TRUE
\* item.cart.userId === userId
Owns(u, item) == item.cartId = CartId(u)

\* Lines 465-490 of updateItem: the quantity is checked, the item is read with
\* its cart and product, ownership and stock are checked.
UiFind(r, u, id, quantity) ==
    /\ Arriving(r)
    /\ LET item == FindItemById(id)
           me == [req[r] EXCEPT !.op = "updateItem", !.user = u, !.arg.item = id,
                                !.arg.quantity = quantity]
       IN IF quantity < 1
          THEN Set(r, [me EXCEPT !.pc = "done",
                                 !.resp = Resp(400, "valid quantity required", "")])
          ELSE IF item = Null \/ ~Owns(u, item[1])
          THEN Set(r, [me EXCEPT !.pc = "done", !.resp = Resp(404, "cart item not found", "")])
          ELSE IF StockShort(item[1].product, quantity)
          THEN Set(r, [me EXCEPT !.pc = "done", !.resp = Resp(400, "insufficient stock", "")])
          ELSE Set(r, [me EXCEPT !.pc = "write", !.existing = item, !.cartId = item[1].cartId])
    /\ UNCHANGED <<products, carts, cartItems, orders, initStock, reviews>>

\* Line 493: prisma.cartItem.update({ where: { id: itemId }, data: { quantity: qty } })
UiWrite(r) ==
    /\ req[r].pc = "write" /\ req[r].op = "updateItem"
    /\ IF RowExists(req[r].arg.item)
       THEN /\ cartItems' = {IF it.id = req[r].arg.item
                             THEN [it EXCEPT !.quantity = req[r].arg.quantity]
                             ELSE it : it \in cartItems}
            /\ Set(r, [req[r] EXCEPT !.pc = "recalc"])
       ELSE Throws(r) /\ UNCHANGED cartItems
    /\ UNCHANGED <<products, carts, orders, initStock, reviews>>

\* Lines 520-527 of removeItem: the item is read with its cart, ownership is checked.
RiFind(r, u, id) ==
    /\ Arriving(r)
    /\ LET item == FindItemById(id)
           me == [req[r] EXCEPT !.op = "removeItem", !.user = u, !.arg.item = id]
       IN IF item = Null \/ ~Owns(u, item[1])
          THEN Set(r, [me EXCEPT !.pc = "done", !.resp = Resp(404, "cart item not found", "")])
          ELSE Set(r, [me EXCEPT !.pc = "delete", !.existing = item, !.cartId = item[1].cartId])
    /\ UNCHANGED <<products, carts, cartItems, orders, initStock, reviews>>

\* Line 530: prisma.cartItem.delete({ where: { id: itemId } }), throws when
\* no row has the id.
RiDelete(r) ==
    /\ req[r].pc = "delete"
    /\ IF RowExists(req[r].arg.item)
       THEN /\ cartItems' = {it \in cartItems : it.id # req[r].arg.item}
            /\ Set(r, [req[r] EXCEPT !.pc = "recalc"])
       ELSE Throws(r) /\ UNCHANGED cartItems
    /\ UNCHANGED <<products, carts, orders, initStock, reviews>>

\* Line 558 of clearCart: prisma.cartItem.deleteMany({ where: { cartId: cart.id } })
CcDeleteMany(r) ==
    /\ req[r].pc = "deleteMany"
    /\ cartItems' = {it \in cartItems : it.cartId # req[r].cartId}
    /\ Set(r, [req[r] EXCEPT !.pc = "recalc"])
    /\ UNCHANGED <<products, carts, orders, initStock, reviews>>

\* Faulty variant: the quantities are left out of the sum.
CartSum_NoQuantity(c) ==
    LET RECURSIVE S(_)
        S(R) == IF R = {} THEN 0
                ELSE LET x == CHOOSE y \in R : TRUE IN x.price + S(R \ {x})
    IN S({it \in cartItems : it.cartId = c})

\* recalcCart, lines 334-336: the rows of the cart are read and summed.
CartSum(c) == SubtotalOfRows({it \in cartItems : it.cartId = c})

RcFind(r) ==
    /\ req[r].pc = "recalc"
    /\ Set(r, [req[r] EXCEPT !.pc = "persist", !.sum = CartSum(req[r].cartId)])
    /\ UNCHANGED <<products, carts, cartItems, orders, initStock, reviews>>

\* recalcCart, lines 338-339: the sum is written to the cart, the cart is
\* read back and the handler answers with it.
CartOwner(c) == CHOOSE u \in Users : CartId(u) = c
RcUpdate(r) ==
    /\ req[r].pc = "persist"
    /\ carts' = [carts EXCEPT ![CartOwner(req[r].cartId)].subtotal = req[r].sum]
    /\ Answer(r, Resp(200, Message(req[r].op), ""))
    /\ UNCHANGED <<products, cartItems, orders, initStock, reviews>>

\* Line 357 of getCart: the cart is read with its items and returned.
GcRead(r) ==
    /\ req[r].pc = "read"
    /\ Answer(r, Resp(200, Message(req[r].op), ""))
    /\ UNCHANGED <<products, carts, cartItems, orders, initStock, reviews>>

\* ------------------------------------------- createReview, deleteReview
\* The ratings a review may carry.
MinRating == 1
MaxRating == 5
\* The ratings and the titles that the requests send.
RatingsTried == (MinRating - 2)..(MaxRating + 1)
Titles == {Null, Some("Good")}

\* if (!productId || !r || r < 1 || r > 5)
RatingInvalid(rating) == rating = 0 \/ rating < MinRating \/ rating > MaxRating

\* The review table holds one row per (userId, productId): a second insert
\* of the pair is refused with the code P2002.
ReviewConflict(u, p) == \E rv \in reviews : rv.userId = u /\ rv.productId = p

\* Faulty variant: the conflict is answered like any other error.
ReviewCaught_AllInternal(code) == Resp(500, "Failed to create review", "")
\* catch (err): if (err.code === 'P2002') 400, else 500.
ReviewCaught(code) ==
    IF code = "P2002" THEN Resp(400, "already reviewed this product", "")
    ELSE Resp(500, "Failed to create review", "")

\* data: { userId, productId, rating: r, title: title ?? null,
\*         comment: comment ?? null, verified: false }
NewReview(u, p, rating, title, r) ==
    [id |-> NewItemId(u, p, r), userId |-> u, productId |-> p, rating |-> rating,
     title |-> title, comment |-> Null, verified |-> FALSE]

\* createReview: the rating is validated, then one prisma.review.create.
CreateReview(r, u, p, rating, title) ==
    /\ Arriving(r)
    /\ LET me == [req[r] EXCEPT !.pc = "done", !.op = "createReview", !.user = u,
                                !.arg.product = p, !.arg.rating = rating,
                                !.arg.title = title]
       IN IF RatingInvalid(rating)
          THEN Set(r, [me EXCEPT !.resp = Resp(400, "rating 1-5 required", "")])
               /\ UNCHANGED reviews
          ELSE IF ReviewConflict(u, p)
          THEN Set(r, [me EXCEPT !.err = TRUE, !.resp = ReviewCaught("P2002")])
               /\ UNCHANGED reviews
          ELSE /\ reviews' = reviews \cup {NewReview(u, p, rating, title, r)}
               /\ Set(r, [me EXCEPT !.resp = Resp(201, "", "")])
    /\ UNCHANGED <<products, carts, cartItems, orders, initStock>>

\* prisma.review.findUnique({ where: { id } })
FindReview(id) ==
    IF \E rv \in reviews : rv.id = id
    THEN Some(CHOOSE rv \in reviews : rv.id = id)
    ELSE Null

\* deleteReview up to the ownership check.
DrFind(r, u, id) ==
    /\ Arriving(r)
    /\ LET existing == FindReview(id)
           me == [req[r] EXCEPT !.op = "deleteReview", !.user = u, !.arg.item = id]
       IN IF existing = Null \/ existing[1].userId # u
          THEN Set(r, [me EXCEPT !.pc = "done", !.resp = Resp(404, "review not found", "")])
          ELSE Set(r, [me EXCEPT !.pc = "deleteReview"])
    /\ UNCHANGED <<products, carts, cartItems, orders, initStock, reviews>>

\* prisma.review.delete({ where: { id } }), throws when the row has gone.
DrDelete(r) ==
    /\ req[r].pc = "deleteReview"
    /\ IF FindReview(req[r].arg.item) # Null
       THEN /\ reviews' = {rv \in reviews : rv.id # req[r].arg.item}
            /\ Answer(r, Resp(200, "review deleted", ""))
       ELSE Throws(r) /\ UNCHANGED reviews
    /\ UNCHANGED <<products, carts, cartItems, orders, initStock>>

\* ------------------------------------------- authenticate, createProduct
\* The Authorization headers that the requests send: none, a bearer token
\* that does not verify, and a token signed for a user.
Tokens == {Null, Some("forged")} \cup {Some(u) : u \in Users}

\* authenticate: 401 when the token is missing or jwt.verify throws, else
\* next() (no response yet) with req.user = { id: payload.id }.
Authenticate(token) ==
    IF token = Null THEN Resp(401, "missing token", "")
    ELSE IF token[1] \notin Users THEN Resp(401, "invalid token", "")
    ELSE NoResp

\* The handlers that the routers mount behind authenticate.
ProtectedOps ==
    {"getCart", "addItem", "updateItem", "removeItem", "clearCart",
     "createOrder", "getMyOrders", "getOrderById", "createReview"}

\* A request to a protected route that authenticate answers itself.
Denied(r, token, op) ==
    /\ Arriving(r)
    /\ Authenticate(token) # NoResp
    /\ Set(r, [req[r] EXCEPT !.pc = "done", !.op = op, !.arg.token = token,
                             !.resp = Authenticate(token)])
    /\ UNCHANGED <<products, carts, cartItems, orders, initStock, reviews>>

\* The Category table, which no handler of this model writes.
Categories == {"c1"}

\* createProduct, mounted without authenticate (the header is never read):
\* validation of the body, then prisma.category.findUnique.
CpFindCategory(r, token, name, description, price, categoryId) ==
    /\ Arriving(r)
    /\ LET me == [req[r] EXCEPT !.op = "createProduct", !.arg.token = token,
                                !.arg.patch = [NoPatch EXCEPT !.name = name, !.price = price],
                                !.arg.description = description,
                                !.arg.category = categoryId]
       IN IF name = Null \/ description = "" \/ price = Null \/ categoryId = ""
          THEN Set(r, [me EXCEPT !.pc = "done",
                          !.resp = Resp(400, "name, description, price, and categoryId are required", "")])
          ELSE IF categoryId \notin Categories
          THEN Set(r, [me EXCEPT !.pc = "done",
                          !.resp = Resp(400, "Invalid categoryId - category does not exist", "")])
          ELSE Set(r, [me EXCEPT !.pc = "createProduct"])
    /\ UNCHANGED <<products, carts, cartItems, orders, initStock, reviews>>

\* prisma.product.create with stock: Number(stock) || 0 and the default
\* status 'DRAFT'; the new row takes an id that no product has.
CpCreate(r) ==
    /\ req[r].pc = "createProduct"
    /\ \E p \in Products :
          /\ ~products[p].exists
          /\ products' = [products EXCEPT ![p] =
                            [exists |-> TRUE, name |-> req[r].arg.patch.name[1],
                             status |-> "DRAFT", stock |-> Some(0),
                             price |-> req[r].arg.patch.price[1]]]
          /\ Set(r, [req[r] EXCEPT !.pc = "done", !.resp = Resp(201, "", p)])
    /\ UNCHANGED <<carts, cartItems, orders, initStock, reviews>>

\* ------------------------------------------------------- getAllProducts
\* const { page = 1, limit = 100, ... } = req.query
DefaultPage == 1
DefaultLimit == 100
\* The largest page size.
MaxPageSize == 100
Min(a, b) == IF a <= b THEN a ELSE b

\* The integer query values that the requests send (Null: not given): around
\* zero, and around and far above the largest page size.
PagesTried == {Null} \cup {Some(n) : n \in -1..3}
LimitsTried ==
    {Null} \cup {Some(n) : n \in -1..2}
    \cup {Some(n) : n \in (MaxPageSize - 1)..(MaxPageSize + 1)}
    \cup {Some(10 * MaxPageSize)}

\* Number(x) of a query value that is an integer, after the default.
NumberOr(q, default) == IF q = Null THEN default ELSE q[1]

\* const pageNum = Math.max(1, Number(page))
PageNum(page) == Max(1, NumberOr(page, DefaultPage))
\* Faulty variant: the page size is not capped.
LimitNum_NoCap(limit) == Max(1, NumberOr(limit, DefaultLimit))
\* const limitNum = Math.min(Math.max(1, Number(limit)), 100)
LimitNum(limit) == Min(Max(1, NumberOr(limit, DefaultLimit)), MaxPageSize)
\* const skip = (pageNum - 1) * limitNum
Skip(page, limit) == (PageNum(page) - 1) * LimitNum(limit)

\* getAllProducts: findMany({ skip, take: limitNum }) and count, answered with
\* the pagination block.
GetAllProducts(r, page, limit) ==
    /\ Arriving(r)
    /\ Set(r, [req[r] EXCEPT !.pc = "done", !.op = "getAllProducts",
                             !.arg.page = page, !.arg.limit = limit,
                             !.data = Some([currentPage |-> PageNum(page),
                                            itemsPerPage |-> LimitNum(limit),
                                            skip |-> Skip(page, limit),
                                            take |-> LimitNum(limit)]),
                             !.resp = Resp(200, "", "")])
    /\ UNCHANGED <<products, carts, cartItems, orders, initStock, reviews>>

\* ------------------------------------------- updateProduct, deleteProduct
\* The bodies of updateProduct: one field is given, the others are absent.
Patches ==
    {[NoPatch EXCEPT !.name = Some("Renamed")]}
    \cup {[NoPatch EXCEPT !.price = Some(n)] : n \in 1..MaxPrice}
    \cup {[NoPatch EXCEPT !.stock = Some(n)] : n \in 0..MaxStock}
    \cup {[NoPatch EXCEPT !.status = Some(st)] : st \in {"ACTIVE", "DRAFT"}}

\* Line 540 of updateProduct: the product is looked up, 404 when it is missing.
UpFind(r, p, patch) ==
    /\ Arriving(r)
    /\ LET me == [req[r] EXCEPT !.op = "updateProduct", !.arg.product = p,
                                !.arg.patch = patch]
       IN IF FindProduct(p) = Null
          THEN Set(r, [me EXCEPT !.pc = "done", !.resp = Resp(404, "product not found", "")])
          ELSE Set(r, [me EXCEPT !.pc = "update"])
    /\ UNCHANGED <<products, carts, cartItems, orders, initStock, reviews>>

\* data: { name: name ?? undefined, price: price ?? undefined,
\*         stock: stock !== undefined ? Number(stock) : undefined, status: ... }
Patched(product, patch) ==
    [product EXCEPT
        !.name = IF patch.name = Null THEN @ ELSE patch.name[1],
        !.price = IF patch.price = Null THEN @ ELSE patch.price[1],
        !.stock = IF patch.stock = Null THEN @ ELSE Some(patch.stock[1]),
        !.status = IF patch.status = Null THEN @ ELSE patch.status[1]]

\* Lines 553-570: prisma.product.update({ where: { id }, data }), throws when
\* the product has gone.
UpUpdate(r) ==
    /\ req[r].pc = "update"
    /\ LET p == req[r].arg.product
       IN IF products[p].exists
          THEN /\ products' = [products EXCEPT ![p] = Patched(@, req[r].arg.patch)]
               /\ Answer(r, Resp(200, "", ""))
          ELSE Throws(r) /\ UNCHANGED products
    /\ UNCHANGED <<carts, cartItems, orders, initStock, reviews>>

\* prisma.orderItem.count({ where: { productId: id } })
OrderItemRefs(p) ==
    LET RECURSIVE Count(_)
        Count(n) == IF n = 0 THEN 0
                    ELSE Count(n - 1)
                         + Cardinality({i \in 1..Len(orders[n].items) :
                                            orders[n].items[i].productId = p})
    IN Count(Len(orders))

\* Lines 593-596 of deleteProduct: a product that order items reference is
\* not deleted.
DpCount(r, p) ==
    /\ Arriving(r)
    /\ LET me == [req[r] EXCEPT !.op = "deleteProduct", !.arg.product = p]
       IN IF OrderItemRefs(p) > 0
          THEN Set(r, [me EXCEPT !.pc = "done",
                                 !.resp = Resp(400, "product is referenced by orders", "")])
          ELSE Set(r, [me EXCEPT !.pc = "deleteCartItems"])
    /\ UNCHANGED <<products, carts, cartItems, orders, initStock, reviews>>

\* Line 599: prisma.cartItem.deleteMany({ where: { productId: id } })
DpDeleteCartItems(r) ==
    /\ req[r].pc = "deleteCartItems"
    /\ cartItems' = {it \in cartItems : it.productId # req[r].arg.product}
    /\ Set(r, [req[r] EXCEPT !.pc = "deleteProduct"])
    /\ UNCHANGED <<products, carts, orders, initStock, reviews>>

\* The Product row of a deleted product.
NoProduct == [exists |-> FALSE, name |-> "", status |-> "", stock |-> Null, price |-> 0]

\* Deletion of a product is blocked while an OrderItem references it, and
\* it takes the CartItems that still reference the product with it.
DeleteBlocked(p) ==
    \E n \in 1..Len(orders) : \E i \in 1..Len(orders[n].items) :
        orders[n].items[i].productId = p
CascadeCartItems(p) == {it \in cartItems : it.productId # p}

\* Line 600: prisma.product.delete({ where: { id } }), throws when the product
\* has gone or an order item has come to reference it since line 593.
DpDelete(r) ==
    /\ req[r].pc = "deleteProduct"
    /\ LET p == req[r].arg.product
       IN IF products[p].exists /\ ~DeleteBlocked(p)
          THEN /\ products' = [products EXCEPT ![p] = NoProduct]
               /\ cartItems' = CascadeCartItems(p)
               /\ Answer(r, Resp(200, "product deleted", ""))
          ELSE Throws(r) /\ UNCHANGED <<products, cartItems>>
    /\ UNCHANGED <<carts, orders, initStock, reviews>>

\* ------------------------------------------------------- specifications
Next ==
    \E r \in Req :
        \/ \E u \in Users : CoFindCart(r, u)
        \/ \E u \in Users : CoFindCartThrows(r, u)
        \/ CoCreateOrder(r)
        \/ CoCreateOrderThrows(r)
        \/ \E i \in 1..Cardinality(Products) : CoUpdateStock(r, i)
        \/ \E i \in 1..Cardinality(Products) : CoUpdateStockThrows(r, i)
        \/ CoDeleteItems(r)
        \/ CoDeleteItemsThrows(r)
        \/ CoResetSubtotal(r)
        \/ CoResetSubtotalThrows(r)

Spec == Init /\ [][Next]_vars

\* One request at a time, and no data-access call throws.
Quiet(r) == \A o \in Req \ {r} : req[o].pc \in {"idle", "done"}

NextSeq ==
    \E r \in Req :
        \/ \E u \in Users : Quiet(r) /\ CoFindCart(r, u)
        \/ Quiet(r) /\ CoCreateOrder(r)
        \/ \E i \in 1..Cardinality(Products) : Quiet(r) /\ CoUpdateStock(r, i)
        \/ Quiet(r) /\ CoDeleteItems(r)
        \/ Quiet(r) /\ CoResetSubtotal(r)

SpecSeq == InitSeq /\ [][NextSeq]_vars

\* The cart item ids a request can name: those of the rows there are, and
\* one that no row has.
NoItemId == <<"", "", 0>>
NamedItemIds == {it.id : it \in cartItems} \cup {NoItemId}

\* The shopper u1 has no cart, an empty cart, one unit of p1 or one unit of
\* each product; the other user's cart holds one unit of p1. p1 is ACTIVE,
\* untracked or with a stock below the largest quantity; p2 is a draft that
\* is out of stock.
InitCart ==
    InitDb({c \in Catalogs({"ACTIVE", "DRAFT"},
                           [p \in Products |-> IF p = "p1" THEN {Null, Some(MaxStock - 1)}
                                               ELSE {Some(0)}]) :
               c["p1"].status = "ACTIVE" /\ c["p2"].status = "DRAFT"},
           {c \in CartContents("u1", [p \in Products |-> {1}]) :
               c = {} \/ ItemRow("u1", "p1", 1) \in c},
           {OneUnitCart("u2", "p1")})

\* One cart request at a time: u1 adds items and clears the cart, either
\* user updates and removes the items they name.
NextCartSeq ==
    \E r \in Req :
        \/ Quiet(r) /\ Arriving(r) /\ \E p \in Products, q \in 0..MaxQty :
                                         AiFindProduct(r, "u1", p, q)
        \/ Quiet(r) /\ AiEnsureCart(r)
        \/ Quiet(r) /\ EcCreate(r)
        \/ Quiet(r) /\ AiFindExisting(r)
        \/ Quiet(r) /\ AiWrite(r)
        \/ Quiet(r) /\ Arriving(r) /\ \E u \in Users, id \in NamedItemIds, q \in 0..MaxQty :
                                         UiFind(r, u, id, q)
        \/ Quiet(r) /\ UiWrite(r)
        \/ Quiet(r) /\ Arriving(r) /\ \E u \in Users, id \in NamedItemIds : RiFind(r, u, id)
        \/ Quiet(r) /\ RiDelete(r)
        \/ Quiet(r) /\ CcEnsureCart(r, "u1")
        \/ Quiet(r) /\ CcDeleteMany(r)
        \/ Quiet(r) /\ RcFind(r)
        \/ Quiet(r) /\ RcUpdate(r)

SpecCartSeq == InitCart /\ [][NextCartSeq]_vars

\* The cart requests of the two users, interleaved at their data-access steps.
NextCart ==
    \E r \in Req :
        \/ Arriving(r) /\ \E p \in Products, q \in 0..MaxQty : AiFindProduct(r, "u1", p, q)
        \/ AiEnsureCart(r)
        \/ EcCreate(r)
        \/ AiFindExisting(r)
        \/ AiWrite(r)
        \/ Arriving(r) /\ \E u \in Users, id \in NamedItemIds, q \in 0..MaxQty :
                              UiFind(r, u, id, q)
        \/ UiWrite(r)
        \/ Arriving(r) /\ \E u \in Users, id \in NamedItemIds : RiFind(r, u, id)
        \/ RiDelete(r)
        \/ CcEnsureCart(r, "u1")
        \/ CcDeleteMany(r)
        \/ RcFind(r)
        \/ RcUpdate(r)
        \/ GcEnsureCart(r, "u1")
        \/ GcRead(r)

SpecCart == InitCart /\ [][NextCart]_vars

\* The shop: both products are ACTIVE and p1 has the largest stock; u1's cart
\* holds one unit of p1, or one of each product; u2's cart is empty or holds
\* one unit of p1.
InitShop ==
    InitDb(Catalogs({"ACTIVE"}, [p \in Products |-> IF p = "p1" THEN {Some(MaxStock)}
                                                    ELSE {Null}]),
           {c \in CartContents("u1", [p \in Products |-> {1}]) : ItemRow("u1", "p1", 1) \in c},
           {EmptyCart, OneUnitCart("u2", "p1")})

\* One request at a time: orders are placed and read, products are edited
\* and deleted, and u1 changes the cart.
NextShop ==
    \E r \in Req :
        \/ \E u \in Users : Quiet(r) /\ CoFindCart(r, u)
        \/ Quiet(r) /\ CoCreateOrder(r)
        \/ \E i \in 1..Cardinality(Products) : Quiet(r) /\ CoUpdateStock(r, i)
        \/ Quiet(r) /\ CoDeleteItems(r)
        \/ Quiet(r) /\ CoResetSubtotal(r)
        \/ Quiet(r) /\ Arriving(r) /\ \E u \in Users, id \in OrderIds : GetOrderById(r, u, id)
        \/ Quiet(r) /\ Arriving(r) /\ \E p \in Products, patch \in Patches : UpFind(r, p, patch)
        \/ Quiet(r) /\ UpUpdate(r)
        \/ Quiet(r) /\ Arriving(r) /\ \E p \in Products : DpCount(r, p)
        \/ Quiet(r) /\ DpDeleteCartItems(r)
        \/ Quiet(r) /\ DpDelete(r)
        \/ Quiet(r) /\ Arriving(r) /\ \E p \in Products : AiFindProduct(r, "u1", p, 1)
        \/ Quiet(r) /\ AiEnsureCart(r)
        \/ Quiet(r) /\ AiFindExisting(r)
        \/ Quiet(r) /\ AiWrite(r)
        \/ Quiet(r) /\ Arriving(r) /\ \E id \in NamedItemIds : UiFind(r, "u1", id, MaxQty)
        \/ Quiet(r) /\ UiWrite(r)
        \/ Quiet(r) /\ Arriving(r) /\ \E id \in NamedItemIds : RiFind(r, "u1", id)
        \/ Quiet(r) /\ RiDelete(r)
        \/ Quiet(r) /\ CcEnsureCart(r, "u1")
        \/ Quiet(r) /\ CcDeleteMany(r)
        \/ Quiet(r) /\ RcFind(r)
        \/ Quiet(r) /\ RcUpdate(r)

SpecShop == InitShop /\ [][NextShop]_vars

\* Placing an order, adding to the cart and deleting a product, interleaved
\* at their data-access steps: either user orders, u1 adds, and either
\* product is deleted. Both products are ACTIVE; u1's cart is empty or holds one unit of
\* p1 or of each product, u2's cart holds one unit of p1.
InitRace ==
    InitDb(Catalogs({"ACTIVE"}, [p \in Products |-> IF p = "p1" THEN {Some(MaxStock)}
                                                    ELSE {Null}]),
           {c \in CartContents("u1", [p \in Products |-> {1}]) :
               c = {} \/ ItemRow("u1", "p1", 1) \in c},
           {OneUnitCart("u2", "p1")})

NextRace ==
    \E r \in Req :
        \/ \E u \in Users : CoFindCart(r, u)
        \/ CoCreateOrder(r)
        \/ \E i \in 1..Cardinality(Products) : CoUpdateStock(r, i)
        \/ CoDeleteItems(r)
        \/ CoResetSubtotal(r)
        \/ Arriving(r) /\ \E p \in Products : AiFindProduct(r, "u1", p, 1)
        \/ AiEnsureCart(r)
        \/ EcCreate(r)
        \/ AiFindExisting(r)
        \/ AiWrite(r)
        \/ RcFind(r)
        \/ RcUpdate(r)
        \/ Arriving(r) /\ \E p \in Products : DpCount(r, p)
        \/ DpDeleteCartItems(r)
        \/ DpDelete(r)

SpecRace == InitRace /\ [][NextRace]_vars

\* Reviews: createReview and deleteReview of either user, interleaved at their
\* data-access steps, on a catalog of two ACTIVE products.
InitReview ==
    InitDb(Catalogs({"ACTIVE"}, [p \in Products |-> {Null}]), {{}}, {EmptyCart})

ReviewIds == {rv.id : rv \in reviews} \cup {NoItemId}

NextReview ==
    \E r \in Req :
        \/ Arriving(r) /\ \E u \in Users, p \in Products, rating \in RatingsTried,
                             title \in Titles : CreateReview(r, u, p, rating, title)
        \/ Arriving(r) /\ \E u \in Users, id \in ReviewIds : DrFind(r, u, id)
        \/ DrDelete(r)

SpecReview == InitReview /\ [][NextReview]_vars

\* Requests with and without a bearer token: the protected routes, one
\* protected handler (createReview) and createProduct; the catalog has one
\* product.
InitAuth ==
    InitDb({[c EXCEPT !["p2"] = NoProduct] :
               c \in Catalogs({"ACTIVE"}, [p \in Products |-> {Null}])},
           {{}}, {EmptyCart})

NextAuth ==
    \E r \in Req :
        \/ Arriving(r) /\ \E token \in Tokens, op \in ProtectedOps : Denied(r, token, op)
        \/ Arriving(r) /\ \E token \in Tokens :
              /\ Authenticate(token) = NoResp
              /\ CreateReview(r, token[1], "p1", MaxRating, Null)
        \/ Arriving(r) /\ \E token \in Tokens, name \in {Null, Some("Cup")},
                             description \in {"", "A cup"},
                             price \in {Null, Some(1)},
                             categoryId \in {""} \cup Categories :
              CpFindCategory(r, token, name, description, price, categoryId)
        \/ CpCreate(r)

SpecAuth == InitAuth /\ [][NextAuth]_vars

\* Listings: getAllProducts with any page and limit.
NextListing ==
    \E r \in Req :
        Arriving(r) /\ \E page \in PagesTried, limit \in LimitsTried : GetAllProducts(r, page, limit)

SpecListing == InitAuth /\ [][NextListing]_vars

\* Orders with a request body and a generated number: createOrder of either
\* user, one request at a time, with any shipping amount in the body and any
\* order number, a number that an order already has included.
MaxNumber == 2
MaxShipping == 1
OrderNumbers == 1..MaxNumber

NextOrderBody ==
    \E r \in Req :
        \/ Quiet(r) /\ Arriving(r) /\ \E u \in Users, shipping \in 0..MaxShipping :
              CoFindCartBody(r, u, shipping)
        \/ req[r].pc = "create" /\ \E number \in OrderNumbers : CoCreateOrderAs(r, number)
        \/ \E i \in 1..Cardinality(Products) : Quiet(r) /\ CoUpdateStock(r, i)
        \/ Quiet(r) /\ CoDeleteItems(r)
        \/ Quiet(r) /\ CoResetSubtotal(r)

SpecOrderBody == InitRace /\ [][NextOrderBody]_vars

\* ----------------------------------------------------- claims: helpers
\* The request r takes its first step: the cart is read in the state before it.
Arrives(r) == req[r].pc = "idle" /\ req'[r].pc # "idle"
\* The request r is answered in this step.
Answered(r) == req[r].resp = NoResp /\ req'[r].resp # NoResp
DbUnchanged == UNCHANGED <<products, carts, cartItems, orders>>

RowActive(it) == products[it.productId].status = "ACTIVE"
RowStocked(it) ==
    \/ products[it.productId].stock = Null
    \/ products[it.productId].stock[1] >= it.quantity
CartFilled(u) == carts[u].exists /\ CartRows(u) # {}
ValidCart(u) == CartFilled(u) /\ \A it \in CartRows(u) : RowActive(it) /\ RowStocked(it)

\* Sum of price x quantity over the items of a sequence, by index.
RECURSIVE LineSum(_, _)
LineSum(items, n) ==
    IF n = 0 THEN 0 ELSE items[n].price * items[n].quantity + LineSum(items, n - 1)

SameRows(items, rows) ==
    /\ Len(items) = Cardinality(rows)
    /\ \A it \in rows : \E i \in 1..Len(items) :
          /\ items[i].productId = it.productId
          /\ items[i].quantity = it.quantity
          /\ items[i].price = it.price

\* C1: a createOrder on a cart with at least one item, all of whose products
\* are ACTIVE and sufficiently stocked, is not refused, holds the cart's rows,
\* and is answered 201 with one order more than before: the order is the
\* user's, its total is the sum of price x quantity over the cart's items,
\* it has one OrderItem per cart item, and the user's cart then has no items.
C1_OrderFromValidCart ==
    [][\A r \in Req :
        /\ (Arrives(r) /\ ValidCart(req'[r].user)) =>
              /\ req'[r].pc = "create"
              /\ SameRows(req'[r].items, CartRows(req'[r].user))
        /\ (Answered(r) /\ req[r].pc # "idle") =>
              /\ req'[r].resp.status = 201
              /\ Len(orders') = Cardinality({o \in Req : req'[o].resp.status = 201})
              /\ req'[r].orderId = Len(orders')
              /\ LET order == orders'[req'[r].orderId]
                 IN /\ order.userId = req'[r].user
                    /\ order.total = LineSum(req'[r].items, Len(req'[r].items))
                    /\ Len(order.items) = Len(req'[r].items)
              /\ {it \in cartItems' : it.cartId = CartId(req'[r].user)} = {}
      ]_vars

C1_Witness ==
    \E r \in Req :
        /\ req[r].resp.status = 201
        /\ Len(req[r].items) = 2
        /\ Len(orders[req[r].orderId].items) = 2
        /\ orders[req[r].orderId].total > 2
        /\ CartRows(req[r].user) = {}

\* C2: a createOrder of a user whose cart does not exist or has no items is
\* answered 400 'cart is empty' at once; no order is created and the products,
\* the carts and the cart items are left as they were.
C2_EmptyCartRefused ==
    [][\A r \in Req :
        (Arrives(r) /\ ~CartFilled(req'[r].user)) =>
            /\ req'[r].resp = Resp(400, "cart is empty", "")
            /\ req'[r].pc = "done"
            /\ req'[r].orderId = 0
            /\ DbUnchanged
      ]_vars

C2_Witness ==
    \E r1, r2 \in Req :
        /\ req[r1].resp.error = "cart is empty" /\ ~carts[req[r1].user].exists
        /\ req[r2].resp.error = "cart is empty" /\ carts[req[r2].user].exists
        /\ orders = <<>>

\* C3 as stated: a createOrder on a cart one of whose products is not ACTIVE
\* is answered ProductUnavailable ('product not active') and changes nothing.
C3_Original ==
    [][\A r \in Req :
        (Arrives(r) /\ CartFilled(req'[r].user)
                    /\ \E it \in CartRows(req'[r].user) : ~RowActive(it)) =>
            /\ req'[r].resp.status = 400
            /\ req'[r].resp.error = "product not active"
            /\ DbUnchanged
      ]_vars

\* The answer of a refused request names an item of the cart that fails the
\* check it reports: a product that is not ACTIVE, or an ACTIVE product whose
\* tracked stock is below the quantity.
RefusalNamesFailingItem(r) ==
    /\ req'[r].resp.status = 400
    /\ req'[r].pc = "done"
    /\ req'[r].orderId = 0
    /\ \E it \in CartRows(req'[r].user) :
          /\ req'[r].resp.product = it.productId
          /\ \/ req'[r].resp.error = "product not active" /\ ~RowActive(it)
             \/ /\ req'[r].resp.error = "insufficient stock"
                /\ RowActive(it) /\ ~RowStocked(it)

\* C3 (amended): a createOrder on a cart one of whose products is not ACTIVE
\* is answered 400 at once, with ProductUnavailable for an inactive item or
\* with InsufficientStock for an ACTIVE item that is short of stock, and no
\* order, no stock change and no cart change happens.
C3_InactiveRefused ==
    [][\A r \in Req :
        (Arrives(r) /\ CartFilled(req'[r].user)
                    /\ \E it \in CartRows(req'[r].user) : ~RowActive(it)) =>
            /\ RefusalNamesFailingItem(r)
            /\ DbUnchanged
      ]_vars

\* An inactive product beside a valid one, refused with nothing changed.
C3_Witness ==
    \E r \in Req :
        /\ req[r].resp.error = "product not active"
        /\ Len(req[r].items) = 2
        /\ \E i \in 1..2 : ~ItemNotActive(req[r].items[i]) /\ ~ItemShort(req[r].items[i])
        /\ orders = <<>>
        /\ Cardinality(CartRows(req[r].user)) = 2

\* C4 as stated: a createOrder on a cart with an item whose quantity exceeds
\* its product's tracked stock is answered InsufficientStock and changes
\* nothing.
C4_Original ==
    [][\A r \in Req :
        (Arrives(r) /\ CartFilled(req'[r].user)
                    /\ \E it \in CartRows(req'[r].user) : ~RowStocked(it)) =>
            /\ req'[r].resp.status = 400
            /\ req'[r].resp.error = "insufficient stock"
            /\ DbUnchanged
      ]_vars

\* C4 (amended): a createOrder on a cart with an item whose quantity exceeds
\* its product's tracked stock is answered 400 at once, with InsufficientStock
\* for an ACTIVE item that is short or with ProductUnavailable for an item
\* whose product is not ACTIVE; no order is created and every product's
\* stock is unchanged.
C4_ShortStockRefused ==
    [][\A r \in Req :
        (Arrives(r) /\ CartFilled(req'[r].user)
                    /\ \E it \in CartRows(req'[r].user) : ~RowStocked(it)) =>
            /\ RefusalNamesFailingItem(r)
            /\ orders' = orders
            /\ \A p \in Products : products'[p].stock = products[p].stock
      ]_vars

\* A product short of stock beside a valid one, refused with the stock kept.
C4_Witness ==
    \E r \in Req :
        /\ req[r].resp.error = "insufficient stock"
        /\ Len(req[r].items) = 2
        /\ \E i \in 1..2 : ~ItemNotActive(req[r].items[i]) /\ ~ItemShort(req[r].items[i])
        /\ orders = <<>>
        /\ \A p \in Products : products[p].stock = initStock[p]

\* C5: when a createOrder is answered 201 and no other request ran meanwhile,
\* every ordered product whose stock was a tracked s >= q when the cart was
\* read has the stock max(0, s - q), q being the ordered quantity.
C5_StockAfterOrder ==
    [][\A r \in Req :
        (Answered(r) /\ req'[r].resp.status = 201) =>
            \A i \in 1..Len(req'[r].items) :
                LET it == req'[r].items[i]
                IN (it.product.stock # Null /\ it.product.stock[1] >= it.quantity) =>
                      products'[it.productId].stock =
                          Some(IF it.product.stock[1] - it.quantity > 0
                               THEN it.product.stock[1] - it.quantity ELSE 0)
      ]_vars

C5_Witness ==
    \E r \in Req :
        /\ req[r].resp.status = 201
        /\ \E i \in 1..Len(req[r].items) :
              /\ req[r].items[i].quantity = 2
              /\ initStock[req[r].items[i].productId] = Some(2)
              /\ products[req[r].items[i].productId].stock = Some(0)
        /\ \E i \in 1..Len(req[r].items) :
              /\ req[r].items[i].quantity = 1
              /\ initStock[req[r].items[i].productId] = Some(2)
              /\ products[req[r].items[i].productId].stock = Some(1)

\* The ids of the CartItem rows a request read.
ItemIds(r) == {req[r].items[i].id : i \in 1..Len(req[r].items)}
Quiescent == \A r \in Req : req[r].pc \in {"idle", "done"}

\* Total quantity of product p over the OrderItems of all orders.
RECURSIVE QtyInItems(_, _, _)
QtyInItems(items, n, p) ==
    IF n = 0 THEN 0
    ELSE (IF items[n].productId = p THEN items[n].quantity ELSE 0)
         + QtyInItems(items, n - 1, p)
RECURSIVE QtyOrdered(_, _)
QtyOrdered(n, p) ==
    IF n = 0 THEN 0
    ELSE QtyInItems(orders[n].items, Len(orders[n].items), p) + QtyOrdered(n - 1, p)

\* C6: order creation is exactly-once: no CartItem row is turned into two
\* orders, also when two createOrder requests of one user run concurrently.
C6_ExactlyOnce ==
    \A r1, r2 \in Req :
        (r1 # r2 /\ req[r1].orderId # 0 /\ req[r2].orderId # 0) =>
            ItemIds(r1) \cap ItemIds(r2) = {}

\* C7: a tracked product stock is never negative, whatever the interleaving
\* of the createOrder requests.
C7_StockNeverNegative ==
    \A p \in Products : products[p].stock # Null => products[p].stock[1] >= 0

\* Two requests that both read stock 1 of the same product and both wrote.
C7_Witness ==
    \E r1, r2 \in Req, p \in Products :
        /\ r1 # r2
        /\ initStock[p] = Some(1)
        /\ products[p].stock = Some(0)
        /\ \A r \in {r1, r2} :
              /\ req[r].resp.status = 201
              /\ \E i \in 1..Len(req[r].items) :
                    /\ req[r].items[i].productId = p
                    /\ req[r].items[i].product.stock = Some(1)

\* C8: once every request is over, none was answered 500 and no cart row was
\* ordered twice, the stock of a product that was tracked initially is
\* max(0, initial stock - total quantity ordered): no decrement is lost.
C8_NoLostDecrement ==
    (/\ Quiescent
     /\ \A r \in Req : req[r].resp.status # 500
     /\ \A r1, r2 \in Req : r1 # r2 => ItemIds(r1) \cap ItemIds(r2) = {}) =>
        \A p \in Products :
            initStock[p] # Null =>
                products[p].stock =
                    Some(Max(0, initStock[p][1] - QtyOrdered(Len(orders), p)))

\* C9: a request is answered 201 only if its order is in the Order table,
\* owned by the user, with one OrderItem per cart item read, in order.
C9_CreatedMeansPersisted ==
    \A r \in Req :
        req[r].resp.status = 201 =>
            /\ req[r].orderId \in 1..Len(orders)
            /\ LET order == orders[req[r].orderId]
               IN /\ order.id = req[r].orderId
                  /\ order.userId = req[r].user
                  /\ Len(order.items) = Len(req[r].items)
                  /\ \A i \in 1..Len(req[r].items) :
                        /\ order.items[i].productId = req[r].items[i].productId
                        /\ order.items[i].quantity = req[r].items[i].quantity

C9_Witness ==
    \E r \in Req :
        /\ req[r].resp.status = 201
        /\ Len(req[r].items) = 2
        /\ Len(orders[req[r].orderId].items) = 2
        /\ \E o \in Req : req[o].resp.status = 500 /\ req[o].orderId # 0

\* A data-access call of request r throws in this step.
Failing(r) == req'[r].err /\ ~req[r].err

\* C10: when a stock update or the cart clearing throws after the order was
\* persisted, the request is answered 500 and stays so, and the Order table
\* keeps every order and its OrderItems as they were.
C10_FailureKeepsOrder ==
    [][\A r \in Req :
        /\ (req[r].orderId # 0 /\ Failing(r)) =>
              /\ req'[r].resp.status = 500
              /\ orders' = orders
        /\ (req[r].orderId # 0 /\ req[r].err) =>
              /\ req'[r].resp.status = 500
              /\ req'[r].orderId \in 1..Len(orders')
              /\ orders'[req'[r].orderId] = orders[req[r].orderId]
      ]_vars

\* A request answered 500 whose order is nevertheless in the Order table,
\* with the cart still filled.
C10_Witness ==
    \E r \in Req :
        /\ req[r].pc = "done"
        /\ req[r].resp.status = 500
        /\ req[r].orderId \in 1..Len(orders)
        /\ Len(orders[req[r].orderId].items) = Len(req[r].items)
        /\ CartRows(req[r].user) # {}

\* C11: persisting the order, decrementing the stock and clearing the cart
\* are all-or-nothing: a request that has ended and had persisted an order
\* has not failed on the way, and the cart rows it ordered are gone.
C11_AllOrNothing ==
    \A r \in Req :
        (req[r].pc = "done" /\ req[r].orderId # 0) =>
            /\ ~req[r].err
            /\ ItemIds(r) \cap {it.id : it \in cartItems} = {}

\* ------------------------------------------------- claims: cart helpers
\* The rows of the pair (cart of u, product p) in a CartItem table, and the
\* quantity they hold together.
RowsOf(table, u, p) == {it \in table : it.cartId = CartId(u) /\ it.productId = p}
QuantityIn(rows) ==
    LET RECURSIVE Q(_)
        Q(R) == IF R = {} THEN 0
                ELSE LET x == CHOOSE y \in R : TRUE IN x.quantity + Q(R \ {x})
    IN Q(rows)

\* The request r of handler op writes its cart item in this step.
Writes(r, op) == req[r].op = op /\ req[r].pc = "write" /\ req'[r].pc = "recalc"
\* The request r of handler op is answered with success in this step.
Succeeds(r, op) == req[r].op = op /\ Answered(r) /\ req'[r].resp.status = 200

\* C13: a cart never holds two rows of one product, and the write of an
\* addItem that goes through leaves exactly one row of the product, whose
\* quantity is the quantity the cart held of the product before plus the
\* quantity added; requests run one at a time.
C13_AddMerges ==
    [][/\ \A u \in Users, p \in Products : Cardinality(RowsOf(cartItems', u, p)) <= 1
       /\ \A r \in Req :
            Writes(r, "addItem") =>
                LET u == req[r].user
                    p == req[r].arg.product
                IN /\ Cardinality(RowsOf(cartItems', u, p)) = 1
                   /\ QuantityIn(RowsOf(cartItems', u, p))
                        = QuantityIn(RowsOf(cartItems, u, p)) + req[r].arg.quantity
                   /\ \A v \in Users, q \in Products :
                        <<v, q>> # <<u, p>> => RowsOf(cartItems', v, q) = RowsOf(cartItems, v, q)
      ]_vars

\* Two addItem of the largest quantity for one product, both answered 200,
\* and one row that holds the sum.
C13_Witness ==
    \E r1, r2 \in Req :
        /\ r1 # r2
        /\ req[r1].op = "addItem" /\ req[r1].resp.status = 200
        /\ req[r2].op = "addItem" /\ req[r2].resp.status = 200
        /\ req[r1].user = req[r2].user
        /\ req[r1].arg = req[r2].arg
        /\ req[r1].arg.quantity = MaxQty
        /\ Cardinality(RowsOf(cartItems, req[r1].user, req[r1].arg.product)) = 1
        /\ QuantityIn(RowsOf(cartItems, req[r1].user, req[r1].arg.product)) = 2 * MaxQty

\* The sum of price x quantity over the rows of the cart of u in a table.
CartTotal(table, u) ==
    LET RECURSIVE T(_)
        T(R) == IF R = {} THEN 0
                ELSE LET x == CHOOSE y \in R : TRUE IN T(R \ {x}) + x.quantity * x.price
    IN T({it \in table : it.cartId = CartId(u)})

CartMutations == {"addItem", "updateItem", "removeItem", "clearCart"}

\* C14: when an addItem, updateItem, removeItem or clearCart is answered with
\* success, the stored subtotal of the user's cart is the sum of price x
\* quantity over the items then in the cart (zero when there are none);
\* requests run one at a time.
C14_SubtotalIsSum ==
    [][\A r \in Req :
        (\E op \in CartMutations : Succeeds(r, op)) =>
            /\ carts'[req'[r].user].exists
            /\ carts'[req'[r].user].subtotal = CartTotal(cartItems', req'[r].user)
      ]_vars

\* An addItem answered 200 on a cart of two products of different prices, one
\* of them in a quantity above one.
C14_Witness ==
    \E r \in Req :
        /\ req[r].op = "addItem" /\ req[r].resp.status = 200
        /\ Cardinality(CartRows(req[r].user)) = 2
        /\ \E it \in CartRows(req[r].user) : it.quantity > 1
        /\ carts[req[r].user].subtotal > 1 + MaxPrice

\* C15: once interleaved cart requests have all completed, and all with
\* success, the stored subtotal of every cart is the sum of price x quantity
\* over the items of the cart.
C15_SubtotalAfterInterleaving ==
    (/\ Quiescent
     /\ \A r \in Req : req[r].pc = "done" => req[r].resp.status = 200) =>
        \A u \in Users : carts[u].exists => carts[u].subtotal = CartTotal(cartItems, u)

\* C16: a user has at most one cart, and every getCart returns it: the
\* request is answered with success and the user's cart exists, also when it
\* runs together with another first access of the user.
C16_EnsureCartReturnsCart ==
    \A r \in Req :
        (req[r].op = "getCart" /\ req[r].pc = "done") =>
            /\ req[r].resp.status = 200
            /\ carts[req[r].user].exists

\* The product p is stock-tracked and its stock is below the quantity n.
Exceeds(p, n) == products[p].exists /\ products[p].stock # Null /\ n > products[p].stock[1]
\* The row a request has written is within the bounds: at least one unit and,
\* for a stock-tracked product, at most the stock.
WithinStock(row) == row.quantity >= 1 /\ ~Exceeds(row.productId, row.quantity)
\* The request r is refused in this step with the error e, and nothing is written.
Refused(r, e) ==
    /\ req'[r].pc = "done"
    /\ req'[r].resp.status = 400 /\ req'[r].resp.error = e
    /\ DbUnchanged

\* What holds of the writes of addItem and updateItem, of the combined check
\* of addItem and of the stock check of updateItem on an item of the caller.
QuantityChecks(r) ==
    /\ Writes(r, "addItem") =>
          \A it \in RowsOf(cartItems', req[r].user, req[r].arg.product) : WithinStock(it)
    /\ Writes(r, "updateItem") =>
          \A it \in cartItems' : it.id = req[r].arg.item => WithinStock(it)
    /\ (/\ req[r].op = "addItem" /\ req[r].pc = "existing" /\ req'[r].pc # "existing"
        /\ Exceeds(req[r].arg.product,
                   QuantityIn(RowsOf(cartItems, req[r].user, req[r].arg.product))
                     + req[r].arg.quantity)) =>
          Refused(r, "insufficient stock")
    /\ (/\ Arrives(r) /\ req'[r].op = "updateItem"
        /\ \E it \in CartRows(req'[r].user) :
              it.id = req'[r].arg.item /\ Exceeds(it.productId, req'[r].arg.quantity)) =>
          Refused(r, "insufficient stock")

\* C17 as stated: a successful addItem or updateItem leaves a quantity of at
\* least 1 and, for a stock-tracked product, of at most the stock, and a
\* request that would exceed the stock is refused with 'insufficient stock'
\* and writes nothing.
C17_Original ==
    [][\A r \in Req :
        /\ QuantityChecks(r)
        /\ (/\ Arrives(r) /\ req'[r].op = "addItem"
            /\ Exceeds(req'[r].arg.product, req'[r].arg.quantity)) =>
              Refused(r, "insufficient stock")
      ]_vars

\* C17 (amended): as above, but an addItem that would exceed the stock of a
\* product that is not ACTIVE is refused with 'product not active'.
C17_QuantityWithinStock ==
    [][\A r \in Req :
        /\ QuantityChecks(r)
        /\ (/\ Arrives(r) /\ req'[r].op = "addItem"
            /\ Exceeds(req'[r].arg.product, req'[r].arg.quantity)) =>
              IF products[req'[r].arg.product].status = "ACTIVE"
              THEN Refused(r, "insufficient stock")
              ELSE Refused(r, "product not active")
      ]_vars

\* One addItem has filled the row up to the stock, and the next addItem of
\* the product is refused at the check of the combined quantity.
C17_Witness ==
    \E r1, r2 \in Req :
        /\ req[r1].op = "addItem" /\ req[r1].resp.status = 200
        /\ req[r2].op = "addItem" /\ req[r2].resp.error = "insufficient stock"
        /\ req[r2].existing # Null
        /\ req[r1].user = req[r2].user /\ req[r1].arg.product = req[r2].arg.product
        /\ \E it \in CartRows(req[r2].user) :
              /\ it.productId = req[r2].arg.product
              /\ products[it.productId].stock = Some(it.quantity)

\* The request r arrives as an updateItem or removeItem that names a row of
\* the cart of another user.
NamesForeignItem(r) ==
    /\ Arrives(r) /\ req'[r].op \in {"updateItem", "removeItem"}
    /\ \E it \in cartItems : it.id = req'[r].arg.item /\ it.cartId # CartId(req'[r].user)

NotFound(r) ==
    /\ req'[r].pc = "done"
    /\ req'[r].resp = Resp(404, "cart item not found", "")
    /\ DbUnchanged

\* C18 as stated: an updateItem or removeItem that names an item of another
\* user's cart is answered 404 and changes no cart item and no subtotal.
C18_Original == [][\A r \in Req : NamesForeignItem(r) => NotFound(r)]_vars

\* C18 (amended): as above, but an updateItem whose quantity is below 1 is
\* answered 400 'valid quantity required' before the item is looked up.
C18_OwnershipChecked ==
    [][\A r \in Req :
        NamesForeignItem(r) =>
            IF req'[r].op = "updateItem" /\ req'[r].arg.quantity < 1
            THEN Refused(r, "valid quantity required")
            ELSE NotFound(r)
      ]_vars

\* An updateItem and a removeItem of one user were answered 404 and the row
\* they named is still in the other user's cart.
C18_Witness ==
    \E r1, r2 \in Req :
        /\ req[r1].op = "updateItem" /\ req[r1].resp.status = 404
        /\ req[r2].op = "removeItem" /\ req[r2].resp.status = 404
        /\ req[r1].user = req[r2].user /\ req[r1].arg.item = req[r2].arg.item
        /\ \E it \in cartItems :
              /\ it.id = req[r1].arg.item
              /\ it.cartId # CartId(req[r1].user)
              /\ it.quantity # req[r1].arg.quantity

\* ------------------------------------------------- claims: orders
\* The orders with the id n that belong to the user u.
OwnOrders(n, u) == {i \in 1..Len(orders) : orders[i].id = n /\ orders[i].userId = u}

\* C12: a getOrderById answers 200 with the order when the order of that id
\* belongs to the requesting user; for an order of another user it answers
\* 404 'order not found' with no order data, exactly as for an id that no
\* order has.
C12_OrderOnlyToOwner ==
    [][\A r \in Req :
        (Arrives(r) /\ req'[r].op = "getOrderById") =>
            LET own == OwnOrders(req'[r].arg.order, req'[r].user)
            IN /\ req'[r].pc = "done"
               /\ DbUnchanged
               /\ IF own # {}
                  THEN /\ req'[r].resp.status = 200
                       /\ \E i \in own : req'[r].data = Some(orders[i])
                  ELSE /\ req'[r].resp = Resp(404, "order not found", "")
                       /\ req'[r].data = Null
      ]_vars

\* A user asked for the order of another user and got 404 and no data.
C12_Witness ==
    \E r \in Req :
        /\ req[r].op = "getOrderById" /\ req[r].resp.status = 404
        /\ req[r].data = Null
        /\ \E i \in 1..Len(orders) :
              orders[i].id = req[r].arg.order /\ orders[i].userId # req[r].user

\* C19: the order that createOrder persists is priced from the cart items:
\* each row of the cart gives one OrderItem with the row's recorded price as
\* unit price and price x quantity as line total, and the order's subtotal is
\* the sum of these, whatever the price of the product is by then.
C19_PricedFromCartItem ==
    [][\A r \in Req :
        (req[r].pc = "create" /\ req'[r].pc = "stock") =>
            LET order == orders'[Len(orders')]
                rows == CartRows(req[r].user)
            IN /\ Len(orders') = Len(orders) + 1
               /\ Len(order.items) = Cardinality(rows)
               /\ \A it \in rows : \E i \in 1..Len(order.items) :
                     /\ order.items[i].productId = it.productId
                     /\ order.items[i].quantity = it.quantity
                     /\ order.items[i].price = it.price
                     /\ order.items[i].total = it.price * it.quantity
               /\ order.subtotal = CartTotal(cartItems, req[r].user)
      ]_vars

\* updateProduct has changed the price of a product that was in a cart, and
\* the order placed afterwards holds the product at the price of the cart item.
C19_Witness ==
    \E r1, r2 \in Req :
        /\ r1 < r2
        /\ req[r1].op = "updateProduct" /\ req[r1].resp.status = 200
        /\ req[r1].arg.patch.price # Null
        /\ req[r2].op = "createOrder" /\ req[r2].resp.status = 201
        /\ \E i \in 1..Len(orders[req[r2].orderId].items) :
              LET item == orders[req[r2].orderId].items[i]
              IN /\ item.productId = req[r1].arg.product
                 /\ item.price # products[item.productId].price
                 /\ item.price # req[r1].arg.patch.price[1]

\* C20: an order, once created, stays as it is: no step of a later
\* createOrder, updateProduct, deleteProduct or cart operation changes the
\* order or one of its items (product, name, quantity, unit price, line total).
C20_OrdersImmutable ==
    [][\A i \in 1..Len(orders) : i <= Len(orders') /\ orders'[i] = orders[i]]_vars

\* A product was renamed after it had been ordered: the order item keeps the
\* name the product had.
C20_Witness ==
    \E r1, r2 \in Req :
        /\ r1 < r2
        /\ req[r1].op = "createOrder" /\ req[r1].resp.status = 201
        /\ req[r2].op = "updateProduct" /\ req[r2].resp.status = 200
        /\ req[r2].arg.patch.name # Null
        /\ \E i \in 1..Len(orders[req[r1].orderId].items) :
              LET item == orders[req[r1].orderId].items[i]
              IN /\ item.productId = req[r2].arg.product
                 /\ item.name = NameOf(item.productId)
                 /\ item.name # products[item.productId].name

\* ------------------------------------------------- claims: catalog
\* Some OrderItem of a persisted order names the product p.
Ordered(p) ==
    \E n \in 1..Len(orders) : \E i \in 1..Len(orders[n].items) :
        orders[n].items[i].productId = p
InCarts(table, p) == \E it \in table : it.productId = p

\* C21: a step of a deleteProduct on a product that an OrderItem references
\* removes no CartItem and not the product, and when it answers it answers
\* 400; a deleteProduct that goes through leaves the product deleted and no
\* CartItem of it; and no CartItem and no OrderItem references a deleted
\* product, also while orders are placed and items are added alongside.
C21_ReferencedProductKept ==
    [][/\ \A r \in Req :
            /\ (/\ req'[r] # req[r] /\ req'[r].op = "deleteProduct"
                /\ Ordered(req'[r].arg.product)) =>
                  /\ cartItems' = cartItems /\ products' = products
                  /\ Answered(r) => req'[r].resp.status = 400
            /\ Succeeds(r, "deleteProduct") =>
                  /\ ~products'[req[r].arg.product].exists
                  /\ ~InCarts(cartItems', req[r].arg.product)
       /\ \A p \in Products :
            ~products'[p].exists => ~InCarts(cartItems', p) /\ ~Ordered(p)'
      ]_vars

\* ------------------------------------------------- claims: reviews
ReviewsOf(table, u, p) == {rv \in table : rv.userId = u /\ rv.productId = p}
\* The request r is a createReview by a user who has a review of the product.
SecondReview(r) ==
    /\ Arrives(r) /\ req'[r].op = "createReview"
    /\ ReviewsOf(reviews, req'[r].user, req'[r].arg.product) # {}
AlreadyReviewed(r) ==
    /\ req'[r].pc = "done"
    /\ req'[r].resp.status = 400
    /\ req'[r].resp.error = "already reviewed this product"

\* C22 as stated: every second createReview of a user for a product is
\* answered 400 'already reviewed this product', whatever its rating.
C22_Original ==
    [][\A r \in Req : SecondReview(r) => AlreadyReviewed(r) /\ reviews' = reviews]_vars

\* C22: there is at most one review per (user, product); a second
\* createReview of a user for a product leaves the review table as it was and
\* is answered 400: 'already reviewed this product' when its rating is in
\* 1..5, 'rating 1-5 required' otherwise.
C22_OneReviewPerUser ==
    [][/\ \A u \in Users, p \in Products : Cardinality(ReviewsOf(reviews', u, p)) <= 1
       /\ \A r \in Req :
            SecondReview(r) =>
                /\ reviews' = reviews
                /\ IF req'[r].arg.rating \in MinRating..MaxRating
                   THEN AlreadyReviewed(r)
                   ELSE /\ req'[r].resp.status = 400
                        /\ req'[r].resp.error = "rating 1-5 required"
      ]_vars

\* A second review with a valid rating was refused as a conflict.
C22_Witness ==
    \E r \in Req :
        /\ req[r].op = "createReview" /\ req[r].resp.error = "already reviewed this product"
        /\ ReviewsOf(reviews, req[r].user, req[r].arg.product) # {}

\* ------------------------------------------------- claims: authentication
\* The request r has arrived with no valid bearer token: no user was
\* resolved for it and its header does not verify.
Unauthenticated(r) ==
    /\ req'[r].op \in ProtectedOps \cup {"createProduct"}
    /\ req'[r].user = ""
    /\ Authenticate(req'[r].arg.token) # NoResp

\* C23: a request to a mutating endpoint, or to a cart or order endpoint,
\* that carries no valid bearer token is answered 401 on arrival, and no step
\* of it changes a table.
C23_AuthRequired ==
    [][\A r \in Req :
        /\ (Arrives(r) /\ Unauthenticated(r)) =>
              req'[r].pc = "done" /\ req'[r].resp.status = 401
        /\ (req'[r] # req[r] /\ Unauthenticated(r)) =>
              DbUnchanged /\ reviews' = reviews
      ]_vars

\* ------------------------------------------------- claims: order number
\* The request r runs its prisma.order.create in this step, with a number
\* that an order already has.
Collides(r) ==
    /\ req[r].pc = "create" /\ req'[r].pc # "create"
    /\ NumberTaken(req'[r].number)

Listed(r) == req[r].op = "getAllProducts" /\ req[r].pc = "done"

\* C25: for every listing with an integer (or no) limit and page, the page
\* size is in 1..100 (the limit itself when it is in that range, 100 above
\* it, 1 at or below zero), the page is at least 1 (the page asked for when
\* that is at least 1), and the rows skipped are (page - 1) x page size.
C25_PageSizeClamped ==
    \A r \in Req :
        Listed(r) =>
            LET limit == req[r].arg.limit
                page == req[r].arg.page
                out == req[r].data[1]
            IN /\ out.itemsPerPage \in 1..100
               /\ out.take = out.itemsPerPage
               /\ (limit # Null /\ limit[1] > 100) => out.itemsPerPage = 100
               /\ (limit # Null /\ limit[1] <= 0) => out.itemsPerPage = 1
               /\ (limit # Null /\ limit[1] \in 1..100) => out.itemsPerPage = limit[1]
               /\ out.currentPage >= 1
               /\ (page # Null /\ page[1] >= 1) => out.currentPage = page[1]
               /\ out.skip = (out.currentPage - 1) * out.itemsPerPage

\* A listing with limit=1000 on page 2 was cut to 100 rows after 100.
C25_Witness ==
    \E r \in Req :
        /\ Listed(r)
        /\ req[r].arg.limit = Some(1000) /\ req[r].arg.page = Some(2)
        /\ req[r].data[1].itemsPerPage = 100 /\ req[r].data[1].skip = 100

\* ------------------------------------------------- claims: order totals
\* C26: a stock that is not tracked (null) stays so when the product is
\* ordered: only createOrder writes the stock here, so a product whose stock
\* was null initially has a null stock in every state.
C26_UntrackedStaysUntracked ==
    \A p \in Products : initStock[p] = Null => products[p].stock = Null

\* C27: every persisted order has total = subtotal + tax + shipping -
\* discount, whatever shipping amount the request body gave.
C27_TotalAddsUp ==
    \A n \in 1..Len(orders) :
        orders[n].total =
            orders[n].subtotal + orders[n].tax + orders[n].shipping - orders[n].discount

\* ------------------------------------------------- claims: concurrency
\* C28: no overselling: when the orders are of different users and no request
\* has failed, the quantity of a stock-tracked product over all OrderItems is
\* at most the product's initial stock, whatever the interleaving.
C28_NoOverselling ==
    (/\ \A r \in Req : ~req[r].err
     /\ \A r1, r2 \in Req :
          (r1 # r2 /\ req[r1].orderId # 0 /\ req[r2].orderId # 0) =>
              req[r1].user # req[r2].user) =>
        \A p \in Products :
            initStock[p] # Null => QtyOrdered(Len(orders), p) <= initStock[p][1]

\* The request r clears the cart in this step (line 202 of createOrder).
Clears(r) == req[r].pc = "clear" /\ req'[r].pc = "subtotal"

\* C29: the cart clearing of createOrder removes only what was ordered:
\* every CartItem row that the step removes is one of the rows the order was
\* made from, with the quantity that was ordered, also when an addItem of
\* the same user runs in between.
C29_ClearsOnlyOrdered ==
    [][\A r \in Req :
        Clears(r) =>
            \A row \in cartItems \ cartItems' :
                \E i \in 1..Len(req[r].items) :
                    /\ req[r].items[i].id = row.id
                    /\ req[r].items[i].quantity = row.quantity
      ]_vars

\* C30: when a deleteProduct has gone through (requests run one at a time),
\* the stored subtotal of every cart is the sum of price x quantity over the
\* items the cart is left with.
C30_SubtotalAfterDelete ==
    [][\A r \in Req :
        Succeeds(r, "deleteProduct") =>
            \A u \in Users :
                carts'[u].exists => carts'[u].subtotal = CartTotal(cartItems', u)
      ]_vars

====
